---- MODULE Spec2Model ----
(***************************************************************************)
(* Model of the issue lifecycle engine: the IssueStateMachine of           *)
(* src/core/state_machine.py and CodeAgent.process_issue of                *)
(* src/agents/code_agent.py, which drives one machine per issue.           *)
(***************************************************************************)
EXTENDS Integers, Sequences, FiniteSets, TLC

VARIABLES
    state,          \* IssueStateMachine._state
    history,        \* IssueStateMachine._history: sequence of StateTransition
    iteration,      \* IssueContext.iteration
    max_iterations, \* IssueStateMachine.max_iterations
    pr_number,      \* IssueContext.pr_number (0 models None)
    branch_name,    \* IssueContext.branch_name ("" models None)
    op,             \* the last call made on the machine and what it returned
    accepted,       \* number of transition_to calls that returned True so far
    returned,       \* the list object the caller got from the history property
    pc,             \* position of the running operation in its code
    \* ReviewerAgent.check_and_decide
    ci_status,      \* pr_info.ci_status: the CI checks fetched at line 215
    review,         \* review_result: the parsed ReviewResult
    decision,       \* the dict check_and_decide returns
    generated,      \* number of _generate_review calls made
    posted,         \* number of reviews posted to the PR
    \* run_agent_loop
    messages,       \* the message history
    loop_iteration, \* the local iteration counter
    loop_max,       \* the max_iterations argument
    pending,        \* tool calls of the current response not yet dispatched
    llm_calls,      \* number of llm_with_tools.invoke calls made
    dispatched,     \* number of tool invocations made (tools_by_name[..].invoke)
    loop_result,    \* the string the loop returned
    llm_failed,     \* an llm_with_tools.invoke call of this turn raised
    finish_signal,  \* the summary given with the finish action ("" = none)
    session,        \* the session's completion flag and message
    \* run_cycle
    cycle_max,      \* the --max-iterations option
    round,          \* the local iteration counter of the review loop
    turns,          \* number of agent turns run (first, corrective, fix)
    corrective,     \* number of corrective follow-up turns run
    fix_rounds,     \* number of rounds that ran a fix turn
    decisions,      \* the actions check_and_decide returned, in order
    cycle_pr,       \* the local pr_number (0 models None)
    cycle_outcome,  \* how run_cycle ended: "returned", "exit1", "raised"
    result,         \* the dict process_issue returned to run_cycle
    \* LLMGateway and its provider
    provider,       \* the configured provider: "openai" or "yandex"
    entry,          \* the gateway method called ("" before the call)
    outer_attempt,  \* attempt number of the retry around provider.generate
    inner_attempt,  \* attempt number of the retry around generate_with_context
    provider_requests, \* requests sent to the provider API so far
    last_error,     \* how the last request failed ("" if none did)
    \* the web front end
    jobs,           \* the jobs dict: job id -> Job, with what the job ran on
    environ,        \* os.environ: the process-wide environment
    settings_cache  \* the lru_cache of get_settings

machineVars == <<state, history, iteration, max_iterations, pr_number,
                 branch_name, op, accepted, returned>>
reviewVars == <<ci_status, review, decision, generated, posted>>
loopVars == <<messages, loop_iteration, loop_max, pending, llm_calls,
              dispatched, loop_result, llm_failed, finish_signal, session>>

cycleVars == <<cycle_max, round, turns, corrective, fix_rounds, decisions,
               cycle_pr, cycle_outcome, result>>

gatewayVars == <<provider, entry, outer_attempt, inner_attempt,
                 provider_requests, last_error>>

webVars == <<jobs, environ, settings_cache>>

vars == <<machineVars, pc, reviewVars, loopVars, cycleVars, gatewayVars,
          webVars>>

\* what the operations of one component leave alone
notMachine == <<reviewVars, loopVars, cycleVars, gatewayVars, webVars>>
notReview == <<machineVars, loopVars, cycleVars, gatewayVars, webVars>>
notLoop == <<machineVars, reviewVars, cycleVars, gatewayVars, webVars>>
notGateway == <<machineVars, reviewVars, loopVars, cycleVars, webVars>>
notWeb == <<machineVars, reviewVars, loopVars, cycleVars, gatewayVars>>

---------------------------------------------------------------------------
(* Bounds of the model *)

\* longest history explored (the happy path has 10 records)
MaxHistory == 11
\* largest value the iteration counter is driven to
MaxIteration == 2
\* largest max_iterations a directly constructed machine is given
MaxMaxIterations == 2

---------------------------------------------------------------------------
(* IssueState: the enum's values *)

CREATED == "created"
ANALYZING == "analyzing"
CONTEXT_BUILDING == "context_building"
GENERATING_CODE == "generating_code"
COMMITTING == "committing"
CREATING_PR == "creating_pr"
CI_RUNNING == "ci_running"
CI_PASSED == "ci_passed"
CI_FAILED == "ci_failed"
REVIEWING == "reviewing"
CHANGES_REQUESTED == "changes_requested"
APPROVED == "approved"
MERGING == "merging"
COMPLETED == "completed"
FAILED == "failed"
MAX_ITERATIONS_REACHED == "max_iterations_reached"

IssueState ==
    {CREATED, ANALYZING, CONTEXT_BUILDING, GENERATING_CODE, COMMITTING,
     CREATING_PR, CI_RUNNING, CI_PASSED, CI_FAILED, REVIEWING,
     CHANGES_REQUESTED, APPROVED, MERGING, COMPLETED, FAILED,
     MAX_ITERATIONS_REACHED}

\* The static transition table: the allowed destinations of each state.
VALID_TRANSITIONS(s) ==
    CASE s = CREATED -> {ANALYZING}
      [] s = ANALYZING -> {CONTEXT_BUILDING, FAILED}
      [] s = CONTEXT_BUILDING -> {GENERATING_CODE, FAILED}
      [] s = GENERATING_CODE -> {COMMITTING, FAILED}
      [] s = COMMITTING -> {CREATING_PR, FAILED}
      [] s = CREATING_PR -> {CI_RUNNING, FAILED}
      [] s = CI_RUNNING -> {CI_PASSED, CI_FAILED}
      [] s = CI_PASSED -> {REVIEWING}
      [] s = CI_FAILED -> {GENERATING_CODE, FAILED, MAX_ITERATIONS_REACHED}
      [] s = REVIEWING -> {APPROVED, CHANGES_REQUESTED, FAILED}
      [] s = CHANGES_REQUESTED -> {GENERATING_CODE, FAILED, MAX_ITERATIONS_REACHED}
      [] s = APPROVED -> {MERGING, COMPLETED}
      [] s = MERGING -> {COMPLETED, FAILED}
      [] s = COMPLETED -> {}
      [] s = FAILED -> {}
      [] s = MAX_ITERATIONS_REACHED -> {}
      [] OTHER -> {}

\* StateTransition record (timestamp and metadata carry no control flow)
StateTransition(from, to) == [from_state |-> from, to_state |-> to]

\* variant: MAX_ITERATIONS_REACHED is left out of the terminal set
is_terminal_without_max(s) == s \in {COMPLETED, FAILED}

\* is_terminal property
is_terminal(s) == s \in {COMPLETED, FAILED, MAX_ITERATIONS_REACHED}

\* is_success property
is_success(s) == s = COMPLETED

\* variant: a state without table entries falls back to [FAILED]
can_transition_to_default(s, new_state) ==
    new_state \in (IF VALID_TRANSITIONS(s) = {} THEN {FAILED} ELSE VALID_TRANSITIONS(s))

\* variant: any target is allowed from a state that has destinations
can_transition_to_unchecked(s, new_state) == VALID_TRANSITIONS(s) # {}

\* can_transition_to: membership of the target in the current state's list
can_transition_to(s, new_state) == new_state \in VALID_TRANSITIONS(s)

\* variant: the limit is compared with > instead of >=
iteration_limit_strict(new_state, it, max) ==
    IF new_state = GENERATING_CODE /\ it > 0 /\ it > max
    THEN MAX_ITERATIONS_REACHED
    ELSE new_state

\* variant: the limit fires one iteration early
iteration_limit_early(new_state, it, max) ==
    IF new_state = GENERATING_CODE /\ it > 0 /\ it + 1 >= max
    THEN MAX_ITERATIONS_REACHED
    ELSE new_state

\* variant: the guard iteration > 0 is dropped
iteration_limit_noguard(new_state, it, max) ==
    IF new_state = GENERATING_CODE /\ it >= max
    THEN MAX_ITERATIONS_REACHED
    ELSE new_state

\* transition_to, lines 158-166: the iteration limit check for a request to
\* enter GENERATING_CODE; yields the state actually entered
iteration_limit(new_state, it, max) ==
    IF new_state = GENERATING_CODE /\ it > 0 /\ it >= max
    THEN MAX_ITERATIONS_REACHED
    ELSE new_state

\* variant: the rejection branch logs but does not return
transition_to_fallthrough(s, h, it, max, new_state) ==
    LET entered == iteration_limit(new_state, it, max)
    IN  [ok |-> TRUE, state |-> entered,
         history |-> Append(h, StateTransition(s, entered))]

\* variant: the record keeps the requested state, not the one entered
transition_to_records_request(s, h, it, max, new_state) ==
    IF ~can_transition_to(s, new_state)
    THEN [ok |-> FALSE, state |-> s, history |-> h]
    ELSE [ok |-> TRUE, state |-> iteration_limit(new_state, it, max),
          history |-> Append(h, StateTransition(s, new_state))]

\* variant: an overridden request reports False
transition_to_override_false(s, h, it, max, new_state) ==
    IF ~can_transition_to(s, new_state)
    THEN [ok |-> FALSE, state |-> s, history |-> h]
    ELSE LET entered == iteration_limit(new_state, it, max)
         IN  [ok |-> entered = new_state, state |-> entered,
              history |-> Append(h, StateTransition(s, entered))]

\* variant: the iteration limit check is missing
transition_to_without_limit(s, h, it, max, new_state) ==
    IF ~can_transition_to(s, new_state)
    THEN [ok |-> FALSE, state |-> s, history |-> h]
    ELSE [ok |-> TRUE, state |-> new_state,
          history |-> Append(h, StateTransition(s, new_state))]

\* transition_to as a function of the machine's fields: the returned boolean
\* and the state and history after the call
transition_to(s, h, it, max, new_state) ==
    IF ~can_transition_to(s, new_state)
    THEN [ok |-> FALSE, state |-> s, history |-> h]
    ELSE LET entered == iteration_limit(new_state, it, max)
         IN  [ok |-> TRUE, state |-> entered,
              history |-> Append(h, StateTransition(s, entered))]

\* variant: the property hands out _history itself
history_property_shared(h) == [items |-> h, shared |-> TRUE]

\* variant: the value before the increment is returned
increment_iteration_stale(it) == [iteration |-> it + 1, ret |-> it]

\* increment_iteration: the counter after the call and the returned value
increment_iteration(it) == [iteration |-> it + 1, ret |-> it + 1]

\* the history property: a copy of the list, a new object that does not
\* share storage with _history
history_property(h) == [items |-> h, shared |-> FALSE]

NoList == [items |-> <<>>, shared |-> FALSE]

---------------------------------------------------------------------------
(* The components at rest: the values their variables hold while another   *)
(* component is the one running.                                            *)

NoReview == [decision |-> "", summary |-> "", issues |-> <<>>]
NoDecision == [action |-> ""]
NoSession == [finished |-> FALSE, completion_message |-> ""]

MachineIdle ==
    /\ state = CREATED
    /\ history = <<>>
    /\ iteration = 0
    /\ max_iterations = 0
    /\ pr_number = 0
    /\ branch_name = ""
    /\ op = [name |-> "__init__", arg |-> "", ok |-> FALSE, val |-> 0]
    /\ accepted = 0
    /\ returned = NoList

ReviewIdle ==
    /\ ci_status = <<>>
    /\ review = NoReview
    /\ decision = NoDecision
    /\ generated = 0
    /\ posted = 0

LoopIdle ==
    /\ messages = <<>>
    /\ loop_iteration = 0
    /\ loop_max = 0
    /\ pending = <<>>
    /\ llm_calls = 0
    /\ dispatched = 0
    /\ loop_result = ""
    /\ llm_failed = FALSE
    /\ finish_signal = ""
    /\ session = NoSession

NoResult == [returned |-> FALSE, success |-> FALSE, pr_number |-> 0]

NoEnviron == [GITHUB_TOKEN |-> "", GITHUB_REPOSITORY |-> ""]
NoSettings == [cached |-> FALSE, github_token |-> "", github_repository |-> ""]

GatewayIdle ==
    /\ provider = ""
    /\ entry = ""
    /\ outer_attempt = 0
    /\ inner_attempt = 0
    /\ provider_requests = 0
    /\ last_error = ""

WebIdle ==
    /\ jobs = <<>>
    /\ environ = NoEnviron
    /\ settings_cache = NoSettings

CycleIdle ==
    /\ cycle_max = 0
    /\ round = 0
    /\ turns = 0
    /\ corrective = 0
    /\ fix_rounds = 0
    /\ decisions = <<>>
    /\ cycle_pr = 0
    /\ cycle_outcome = ""
    /\ result = NoResult

---------------------------------------------------------------------------
(* A caller using the machine's public interface directly *)

Init ==
    /\ state = CREATED
    /\ history = <<>>
    /\ iteration = 0
    /\ max_iterations \in 0..MaxMaxIterations
    /\ pr_number = 0
    /\ branch_name = ""
    /\ op = [name |-> "__init__", arg |-> "", ok |-> FALSE, val |-> 0]
    /\ accepted = 0
    /\ returned = NoList
    /\ pc = "caller"
    /\ ReviewIdle
    /\ LoopIdle
    /\ CycleIdle
    /\ GatewayIdle
    /\ WebIdle

\* a list object sharing storage with _history sees the machine's appends
Alias(r, h) == IF r.shared THEN [r EXCEPT !.items = h] ELSE r

\* one transition_to call on the machine: the part every caller shares
MachineCall(new_state) ==
    LET r == transition_to(state, history, iteration, max_iterations, new_state)
    IN  /\ Len(r.history) <= MaxHistory
        /\ state' = r.state
        /\ history' = r.history
        /\ op' = [name |-> "transition_to", arg |-> new_state, ok |-> r.ok, val |-> 0]
        /\ accepted' = IF r.ok THEN accepted + 1 ELSE accepted
        /\ returned' = Alias(returned, r.history)
        /\ UNCHANGED <<iteration, max_iterations>>
        /\ UNCHANGED notMachine

TransitionTo(new_state) ==
    /\ MachineCall(new_state)
    /\ UNCHANGED <<pr_number, branch_name, pc>>

CanTransitionTo(new_state) ==
    /\ op' = [name |-> "can_transition_to", arg |-> new_state,
              ok |-> can_transition_to(state, new_state), val |-> 0]
    /\ UNCHANGED <<state, history, iteration, max_iterations, pr_number,
                   branch_name, accepted, returned, pc>>
    /\ UNCHANGED notMachine

IncrementIteration ==
    /\ iteration < MaxIteration
    /\ iteration' = increment_iteration(iteration).iteration
    /\ op' = [name |-> "increment_iteration", arg |-> "", ok |-> FALSE,
              val |-> increment_iteration(iteration).ret]
    /\ UNCHANGED <<state, history, max_iterations, pr_number, branch_name,
                   accepted, returned, pc>>
    /\ UNCHANGED notMachine

\* the caller reads the history property
GetHistory ==
    /\ returned' = history_property(history)
    /\ op' = [name |-> "history", arg |-> "", ok |-> FALSE, val |-> Len(history)]
    /\ UNCHANGED <<state, history, iteration, max_iterations, pr_number,
                   branch_name, accepted, pc>>
    /\ UNCHANGED notMachine

\* the caller empties the list it was given (list.clear())
ClearReturned ==
    /\ op.name = "history"
    /\ returned.items # <<>>
    /\ returned' = [returned EXCEPT !.items = <<>>]
    /\ history' = IF returned.shared THEN <<>> ELSE history
    /\ op' = [name |-> "clear", arg |-> "", ok |-> FALSE, val |-> 0]
    /\ UNCHANGED <<state, iteration, max_iterations, pr_number, branch_name,
                   accepted, pc>>
    /\ UNCHANGED notMachine

Next ==
    \/ \E t \in IssueState : TransitionTo(t)
    \/ \E t \in IssueState : CanTransitionTo(t)
    \/ IncrementIteration
    \/ GetHistory
    \/ ClearReturned

Spec == Init /\ [][Next]_vars

---------------------------------------------------------------------------
(* CodeAgent.process_issue: one machine driven from CREATED to CI_RUNNING,  *)
(* with the except handler that requests FAILED and re-raises.              *)

\* Settings.max_iterations: Field(ge=1, le=10)
MinSettingsIterations == 1
MaxSettingsIterations == 10
\* largest PR number the repository hands out
MaxPR == 2

InitAgent ==
    /\ state = CREATED
    /\ history = <<>>
    /\ iteration = 0
    /\ max_iterations \in MinSettingsIterations..MaxSettingsIterations
    /\ pr_number = 0
    /\ branch_name = ""
    /\ op = [name |-> "__init__", arg |-> "", ok |-> FALSE, val |-> 0]
    /\ accepted = 0
    /\ returned = NoList
    /\ pc = "start"
    /\ ReviewIdle
    /\ LoopIdle
    /\ CycleIdle
    /\ GatewayIdle
    /\ WebIdle

\* line 100: state_machine.transition_to(ANALYZING), then the try is entered
ProcAnalyze ==
    /\ pc = "start"
    /\ MachineCall(ANALYZING)
    /\ pc' = "try"
    /\ UNCHANGED <<pr_number, branch_name>>

\* line 104, then the calls of lines 105-106 are pending
ProcBuildContext ==
    /\ pc = "try"
    /\ MachineCall(CONTEXT_BUILDING)
    /\ pc' = "build_context"
    /\ UNCHANGED <<pr_number, branch_name>>

\* line 109, then _generate_code is pending
ProcGenerateCode ==
    /\ pc = "build_context"
    /\ MachineCall(GENERATING_CODE)
    /\ pc' = "generate_code"
    /\ UNCHANGED <<pr_number, branch_name>>

\* lines 117-119, then _apply_changes is pending
ProcCommit ==
    /\ pc = "generate_code"
    /\ MachineCall(COMMITTING)
    /\ branch_name' = "issue-branch"
    /\ pc' = "apply_changes"
    /\ UNCHANGED pr_number

\* variant: the request for CREATING_PR is left out
ProcCreatePRUnannounced ==
    /\ pc = "apply_changes"
    /\ pc' = "create_pr"
    /\ op' = [name |-> "apply_changes", arg |-> "", ok |-> FALSE, val |-> 0]
    /\ UNCHANGED <<state, history, iteration, max_iterations, pr_number,
                   branch_name, accepted, returned>>
    /\ UNCHANGED notMachine

\* line 124, then _create_pull_request is pending
ProcCreatePR ==
    /\ pc = "apply_changes"
    /\ MachineCall(CREATING_PR)
    /\ pc' = "create_pr"
    /\ UNCHANGED <<pr_number, branch_name>>

\* lines 130-132: the PR exists, its number is stored, CI_RUNNING requested
ProcCIRunning ==
    /\ pc = "create_pr"
    /\ \E n \in 1..MaxPR : pr_number' = n
    /\ MachineCall(CI_RUNNING)
    /\ pc' = "result"
    /\ UNCHANGED branch_name

\* lines 134-142: the result dict is built and returned
ProcReturn ==
    /\ pc = "result"
    /\ pc' = "returned"
    /\ op' = [name |-> "process_issue", arg |-> state, ok |-> TRUE, val |-> pr_number]
    /\ UNCHANGED <<state, history, iteration, max_iterations, pr_number,
                   branch_name, accepted, returned>>
    /\ UNCHANGED notMachine

\* the positions inside the try body (lines 102-142)
InTry == {"try", "build_context", "generate_code", "apply_changes",
          "create_pr", "result"}

\* lines 144-151: a statement of the try body raised; the handler requests
\* FAILED and re-raises
ProcFail ==
    /\ pc \in InTry
    /\ MachineCall(FAILED)
    /\ pc' = "raised"
    /\ UNCHANGED <<pr_number, branch_name>>

NextAgent ==
    \/ ProcAnalyze
    \/ ProcBuildContext
    \/ ProcGenerateCode
    \/ ProcCommit
    \/ ProcCreatePR
    \/ ProcCIRunning
    \/ ProcReturn
    \/ ProcFail

SpecAgent == InitAgent /\ [][NextAgent]_vars

---------------------------------------------------------------------------
(* Properties of the state machine, checked under Spec *)

IsPrefix(a, b) == Len(a) <= Len(b) /\ SubSeq(b, 1, Len(a)) = a

ToStates(h) == [i \in 1..Len(h) |-> h[i].to_state]

RetryStates == {CI_FAILED, CHANGES_REQUESTED}

\* C1: a transition_to whose target is not in the current state's allowed
\* set returns False and leaves state (and history) as they were.
C1_InvalidTransitionRejected ==
    [][ (op'.name = "transition_to" /\ op'.arg \notin VALID_TRANSITIONS(state))
        => (op'.ok = FALSE /\ state' = state /\ history' = history) ]_vars

C1_Witness ==
    /\ op.name = "transition_to" /\ op.arg = COMPLETED /\ ~op.ok
    /\ state = CREATED /\ history = <<>>

\* C2 as stated: re-entering GENERATING_CODE from CI_FAILED or
\* CHANGES_REQUESTED with iteration >= max_iterations, for every value of
\* the two, lands on MAX_ITERATIONS_REACHED.
C2_Original ==
    [][ (/\ op'.name = "transition_to" /\ op'.arg = GENERATING_CODE
         /\ state \in RetryStates
         /\ iteration >= max_iterations)
        => state' = MAX_ITERATIONS_REACHED ]_vars

\* C2 amended: the same with iteration > 0 (which iteration >= max_iterations
\* implies whenever max_iterations >= 1); the call returns True.
C2_ReentryAtLimit ==
    [][ (/\ op'.name = "transition_to" /\ op'.arg = GENERATING_CODE
         /\ state \in RetryStates
         /\ iteration > 0 /\ iteration >= max_iterations)
        => (state' = MAX_ITERATIONS_REACHED /\ op'.ok
            /\ history' = Append(history, StateTransition(state, MAX_ITERATIONS_REACHED))) ]_vars

C2_Witness ==
    /\ op.name = "transition_to" /\ op.arg = GENERATING_CODE /\ op.ok
    /\ state = MAX_ITERATIONS_REACHED
    /\ history # <<>> /\ history[Len(history)].from_state \in RetryStates
    /\ iteration > 0 /\ iteration = max_iterations

\* C3: every record of history is an edge of the static transition table,
\* overridden destinations included.
C3_HistoryFollowsTable ==
    \A i \in 1..Len(history) :
        history[i].to_state \in VALID_TRANSITIONS(history[i].from_state)

\* C4: once in COMPLETED, FAILED or MAX_ITERATIONS_REACHED every
\* transition_to returns False and state and history never change.
C4_TerminalAbsorbing ==
    [][ is_terminal(state)
        => (/\ state' = state /\ history' = history
            /\ (op'.name = "transition_to" => ~op'.ok)) ]_vars

C4_Witness ==
    /\ state \in {COMPLETED, FAILED, MAX_ITERATIONS_REACHED}
    /\ op.name = "transition_to" /\ op.arg = ANALYZING /\ ~op.ok

\* C5: the length of history is the number of transition_to calls that
\* returned True; a rejected call leaves history as it was, an accepted one
\* appends one record, every earlier history is a prefix of every later one,
\* and changing the list the history property returned changes nothing.
C5_HistoryAppendOnly ==
    /\ [](Len(history) = accepted)
    /\ [][ /\ IsPrefix(history, history')
           /\ (op'.name = "transition_to" /\ ~op'.ok => history' = history)
           /\ (op'.name = "transition_to" /\ op'.ok
                 => Len(history') = Len(history) + 1)
           /\ (op'.name = "history" => returned'.items = history /\ history' = history)
           /\ (op'.name = "clear" => history' = history) ]_vars

C5_Witness ==
    /\ op.name = "clear" /\ returned.items = <<>>
    /\ Len(history) >= 2 /\ accepted = Len(history)

\* C6: a new machine is in CREATED with an empty history; the first record
\* starts at CREATED, each record starts where the previous one ended, and
\* the last record ends in the current state.
C6_HistoryChain ==
    /\ history = <<>> => state = CREATED
    /\ history # <<>> =>
         /\ history[1].from_state = CREATED
         /\ \A i \in 2..Len(history) :
                history[i].from_state = history[i-1].to_state
         /\ history[Len(history)].to_state = state

C6_Witness ==
    /\ Len(history) >= 8
    /\ state = MAX_ITERATIONS_REACHED
    /\ op.name = "transition_to" /\ op.arg = GENERATING_CODE

\* C7: can_transition_to changes neither state, history nor iteration, and a
\* transition_to that follows it with the same target returns what it
\* returned.
C7_CanTransitionPure ==
    [][ /\ (op'.name = "can_transition_to"
              => /\ state' = state /\ history' = history /\ iteration' = iteration
                 /\ op'.ok = (op'.arg \in VALID_TRANSITIONS(state)))
        /\ (op.name = "can_transition_to" /\ op'.name = "transition_to"
              /\ op'.arg = op.arg => op'.ok = op.ok) ]_vars

C7_Witness ==
    /\ op.name = "can_transition_to" /\ op.arg = GENERATING_CODE /\ op.ok
    /\ state = CI_FAILED /\ iteration > 0 /\ iteration >= max_iterations

\* C8: the iteration counter starts at 0 and never decreases;
\* increment_iteration adds exactly 1, returns the new value and leaves state
\* and history alone; transition_to leaves the counter alone.
C8_IterationMonotonic ==
    /\ iteration = 0
    /\ [][ /\ iteration' >= iteration
           /\ (op'.name = "increment_iteration"
                 => /\ iteration' = iteration + 1 /\ op'.val = iteration'
                    /\ state' = state /\ history' = history)
           /\ (op'.name = "transition_to" => iteration' = iteration) ]_vars

C8_Witness ==
    /\ op.name = "increment_iteration" /\ op.val = 2 /\ iteration = 2
    /\ state = CI_FAILED

HappyPath ==
    <<ANALYZING, CONTEXT_BUILDING, GENERATING_CODE, COMMITTING, CREATING_PR,
      CI_RUNNING, CI_PASSED, REVIEWING, APPROVED, COMPLETED>>

\* C9: with iteration 0, after the first k requests of the happy path were
\* accepted, the next one is accepted and enters the requested state;
\* is_terminal is False before the last step and is_terminal and is_success
\* are True after it.
C9_HappyPathAccepted ==
    [][ \A k \in 0..(Len(HappyPath) - 1) :
          (/\ iteration = 0
           /\ ToStates(history) = SubSeq(HappyPath, 1, k)
           /\ op'.name = "transition_to" /\ op'.arg = HappyPath[k + 1])
          => (/\ op'.ok /\ state' = HappyPath[k + 1]
              /\ ToStates(history') = SubSeq(HappyPath, 1, k + 1)
              /\ ~is_terminal(state)
              /\ (k + 1 < Len(HappyPath) => ~is_terminal(state'))
              /\ (k + 1 = Len(HappyPath)
                    => is_terminal(state') /\ is_success(state'))) ]_vars

C9_Witness ==
    /\ iteration = 0 /\ ToStates(history) = HappyPath /\ state = COMPLETED
    /\ op.name = "transition_to" /\ op.arg = COMPLETED /\ op.ok

---------------------------------------------------------------------------
(* Properties of process_issue, checked under SpecAgent *)

\* C10: when a statement of the try body fails, in whichever state the
\* machine is then (ANALYZING through CREATING_PR, or CI_RUNNING), the
\* handler's request for FAILED is accepted, the machine ends in FAILED and
\* the failure is re-raised.
C10_FailureEndsInFailed ==
    pc = "raised" => (state = FAILED /\ op.name = "transition_to"
                      /\ op.arg = FAILED /\ op.ok)

---------------------------------------------------------------------------
(* ReviewerAgent.check_and_decide: the CI checks of a PR and the AI review  *)
(* fused into one action (src/agents/reviewer_agent.py,                     *)
(* src/github/pr_manager.py).                                               *)

\* most CI checks a PR carries
MaxChecks == 2
\* most findings one review holds
MaxFindings == 2

\* ReviewDecision
REVIEW_APPROVED == "APPROVED"
REVIEW_CHANGES_REQUESTED == "CHANGES_REQUESTED"
REVIEW_COMMENT == "COMMENT"

\* CICheckResult as the GitHub API reports it: a check that is not completed
\* has no conclusion; output is present on a failure ("" models None)
CICheckResult(name, status, conclusion) ==
    [name |-> name, status |-> status, conclusion |-> conclusion,
     output |-> IF conclusion = "failure" THEN "log" ELSE ""]

CheckNames == <<"lint", "tests", "build", "docs">>

CheckOutcomes ==
    {<<"queued", "">>, <<"in_progress", "">>, <<"completed", "success">>,
     <<"completed", "failure">>, <<"completed", "cancelled">>}

\* the lists get_ci_status can return
CIStatusLists ==
    UNION { { [i \in 1..n |-> CICheckResult(CheckNames[i], f[i][1], f[i][2])] :
              f \in [1..n -> CheckOutcomes] } : n \in 0..MaxChecks }

\* ReviewIssue ("" and 0 model None)
ReviewIssue(severity, detailed) ==
    [severity |-> severity, description |-> "finding",
     file |-> IF detailed THEN "a.py" ELSE "",
     line |-> IF detailed THEN 7 ELSE 0,
     suggestion |-> IF detailed THEN "fix" ELSE ""]

Severities == {"CRITICAL", "MAJOR", "MINOR"}

Findings == { ReviewIssue(sv, d) : sv \in Severities, d \in BOOLEAN }

\* the raw LLM answer, by what the parser looks for in it: the substring
\* "Status: APPROVED", the substring "CHANGES_REQUESTED", and the issue blocks
\* _parse_issues finds
Contents ==
    [status_approved : BOOLEAN, changes_requested : BOOLEAN,
     issues : UNION { [1..n -> Findings] : n \in 0..MaxFindings }]

\* variant: "No checks = passed" is dropped
ci_passed_nonempty(cs) ==
    /\ cs # <<>>
    /\ \A i \in 1..Len(cs) :
          cs[i].status = "completed" => cs[i].conclusion = "success"

\* PRInfo.ci_passed
ci_passed(cs) ==
    IF cs = <<>> THEN TRUE
    ELSE \A i \in 1..Len(cs) :
            cs[i].status = "completed" => cs[i].conclusion = "success"

\* variant: any() instead of all()
ci_completed_any(cs) ==
    IF cs = <<>> THEN TRUE
    ELSE \E i \in 1..Len(cs) : cs[i].status = "completed"

\* PRInfo.ci_completed
ci_completed(cs) ==
    IF cs = <<>> THEN TRUE
    ELSE \A i \in 1..Len(cs) : cs[i].status = "completed"

IsFailedCheck(c) == c.status = "completed" /\ c.conclusion # "success"

IsFailureConclusion(c) == c.status = "completed" /\ c.conclusion = "failure"

\* variant: only the conclusion "failure" counts as failed
failed_checks_failure_only(cs) == SelectSeq(cs, IsFailureConclusion)

\* PRInfo.failed_checks
failed_checks(cs) == SelectSeq(cs, IsFailedCheck)

HasCritical(issues) == \E i \in 1..Len(issues) : issues[i].severity = "CRITICAL"

\* variant: the CRITICAL adjustment is missing
parse_review_response_no_critical(content) ==
    LET stated == IF content.status_approved THEN REVIEW_APPROVED
                  ELSE IF content.changes_requested THEN REVIEW_CHANGES_REQUESTED
                  ELSE REVIEW_COMMENT
        adjusted == IF content.issues = <<>> /\ stated = REVIEW_COMMENT
                    THEN REVIEW_APPROVED ELSE stated
    IN  [decision |-> adjusted, summary |-> "Review completed.",
         issues |-> content.issues, raw_review |-> content]

\* _parse_review_response: the stated decision (lines 308-312), then the
\* adjustments of lines 347-352
parse_review_response(content) ==
    LET stated == IF content.status_approved THEN REVIEW_APPROVED
                  ELSE IF content.changes_requested THEN REVIEW_CHANGES_REQUESTED
                  ELSE REVIEW_COMMENT
        adjusted == IF content.issues = <<>> /\ stated = REVIEW_COMMENT
                    THEN REVIEW_APPROVED ELSE stated
        final == IF HasCritical(content.issues)
                 THEN REVIEW_CHANGES_REQUESTED ELSE adjusted
    IN  [decision |-> final, summary |-> "Review completed.",
         issues |-> content.issues, raw_review |-> content]

\* the dict built for one failed check (lines 239-243)
FailedCheckDict(c) ==
    [name |-> c.name, conclusion |-> c.conclusion, output |-> c.output]

\* the dict built for one review finding (lines 249-255)
ReviewIssueDict(i) ==
    [severity |-> i.severity, description |-> i.description, file |-> i.file,
     line |-> i.line, suggestion |-> i.suggestion]

\* " and ".join(reason_parts).capitalize()
Reason(ci_failed, review_has_issues) ==
    IF ci_failed /\ review_has_issues
    THEN "Ci checks failed and code review found issues"
    ELSE IF ci_failed THEN "Ci checks failed"
    ELSE "Code review found issues"

\* the dict returned while CI is still running (lines 219-226)
WaitDecision(cs) ==
    [action |-> "wait", reason |-> "CI checks still running",
     ci_status |-> [i \in 1..Len(cs) |->
                      [name |-> cs[i].name, status |-> cs[i].status]]]

\* variant: review feedback takes priority over CI
decide_review_first(cs, rv) ==
    LET ci_failed == ~ci_passed(cs)
        review_has_issues == rv.decision = REVIEW_CHANGES_REQUESTED
        failed == IF ci_failed THEN failed_checks(cs) ELSE <<>>
    IN  IF ci_failed \/ review_has_issues
        THEN [action |-> IF review_has_issues THEN "request_fixes" ELSE "fix_ci",
              reason |-> Reason(ci_failed, review_has_issues),
              failed_checks |-> [i \in 1..Len(failed) |-> FailedCheckDict(failed[i])],
              review_summary |-> rv.summary,
              issues |-> [i \in 1..Len(rv.issues) |-> ReviewIssueDict(rv.issues[i])]]
        ELSE [action |-> "merge", reason |-> "CI passed and review approved",
              review_summary |-> rv.summary]

\* check_and_decide, lines 231-280: the decision from the fetched checks and
\* the review
decide(cs, rv) ==
    LET ci_failed == ~ci_passed(cs)
        review_has_issues == rv.decision = REVIEW_CHANGES_REQUESTED
        failed == IF ci_failed THEN failed_checks(cs) ELSE <<>>
    IN  IF ci_failed \/ review_has_issues
        THEN [action |-> IF ci_failed THEN "fix_ci" ELSE "request_fixes",
              reason |-> Reason(ci_failed, review_has_issues),
              failed_checks |-> [i \in 1..Len(failed) |-> FailedCheckDict(failed[i])],
              review_summary |-> rv.summary,
              issues |-> [i \in 1..Len(rv.issues) |-> ReviewIssueDict(rv.issues[i])]]
        ELSE [action |-> "merge", reason |-> "CI passed and review approved",
              review_summary |-> rv.summary]

InitReview ==
    /\ MachineIdle
    /\ LoopIdle
    /\ ReviewIdle
    /\ CycleIdle
    /\ GatewayIdle
    /\ WebIdle
    /\ pc = "fetch"

\* variant: with CI completed and failed the review is skipped
CheckCISkipsReview ==
    /\ pc = "fetch"
    /\ \E cs \in CIStatusLists :
          /\ ci_status' = cs
          /\ IF ~ci_completed(cs)
             THEN decision' = WaitDecision(cs) /\ pc' = "returned"
             ELSE IF ~ci_passed(cs)
             THEN decision' = decide(cs, NoReview) /\ pc' = "returned"
             ELSE decision' = decision /\ pc' = "review"
    /\ UNCHANGED <<review, generated, posted>>
    /\ UNCHANGED notReview

\* lines 215-226: the PR is fetched; with a check not completed the call
\* returns "wait", otherwise it goes on to the review
CheckCI ==
    /\ pc = "fetch"
    /\ \E cs \in CIStatusLists :
          /\ ci_status' = cs
          /\ IF ~ci_completed(cs)
             THEN decision' = WaitDecision(cs) /\ pc' = "returned"
             ELSE decision' = decision /\ pc' = "review"
    /\ UNCHANGED <<review, generated, posted>>
    /\ UNCHANGED notReview

\* line 229 into review_pr, lines 180-184: the LLM answers and the answer is
\* parsed
GenerateReview ==
    /\ pc = "review"
    /\ \E content \in Contents : review' = parse_review_response(content)
    /\ generated' = generated + 1
    /\ pc' = "post"
    /\ UNCHANGED <<ci_status, decision, posted>>
    /\ UNCHANGED notReview

\* the LLM call of _generate_review raises: check_and_decide raises
GenerateReviewFails ==
    /\ pc = "review"
    /\ generated' = generated + 1
    /\ pc' = "raised"
    /\ UNCHANGED <<ci_status, review, decision, posted>>
    /\ UNCHANGED notReview

\* review_pr line 187, _post_review: the review is posted to the PR
PostReview ==
    /\ pc = "post"
    /\ posted' = posted + 1
    /\ pc' = "decide"
    /\ UNCHANGED <<ci_status, review, decision, generated>>
    /\ UNCHANGED notReview

\* add_pr_review raises: check_and_decide raises
PostReviewFails ==
    /\ pc = "post"
    /\ pc' = "raised"
    /\ UNCHANGED reviewVars
    /\ UNCHANGED notReview

\* lines 231-280: the decision is built and returned
Decide ==
    /\ pc = "decide"
    /\ decision' = decide(ci_status, review)
    /\ pc' = "returned"
    /\ UNCHANGED <<ci_status, review, generated, posted>>
    /\ UNCHANGED notReview

NextReview ==
    \/ CheckCI
    \/ GenerateReview
    \/ GenerateReviewFails
    \/ PostReview
    \/ PostReviewFails
    \/ Decide

SpecReview == InitReview /\ [][NextReview]_vars

---------------------------------------------------------------------------
(* Properties of check_and_decide, checked under SpecReview *)

Fetched == pc # "fetch"

SomeIncomplete == \E i \in 1..Len(ci_status) : ci_status[i].status # "completed"

AllCompleted == \A i \in 1..Len(ci_status) : ci_status[i].status = "completed"

SomeNotSuccess == \E i \in 1..Len(ci_status) : ci_status[i].conclusion # "success"

AllSuccess == \A i \in 1..Len(ci_status) : ci_status[i].conclusion = "success"

\* C11: with at least one check whose status is not "completed" the call
\* returns "wait", whatever the other checks' conclusions are, and it returns
\* it without asking for a review.
C11_IncompleteMeansWait ==
    (Fetched /\ SomeIncomplete)
        => (pc = "returned" /\ decision.action = "wait" /\ generated = 0)

C11_Witness ==
    /\ pc = "returned" /\ decision.action = "wait"
    /\ Len(ci_status) = 2
    /\ ci_status[1].conclusion = "failure"
    /\ ci_status[2].status = "in_progress"

\* C12: a call that returns with every check completed has generated the
\* review once and posted it once, also when CI failed; a call that returns
\* "wait" has done neither; no call does either twice.
C12_ReviewExactlyOnce ==
    /\ generated <= 1 /\ posted <= generated
    /\ (pc = "returned" /\ AllCompleted) => (generated = 1 /\ posted = 1)
    /\ (pc = "returned" /\ decision.action = "wait")
          => (generated = 0 /\ posted = 0)
    /\ (pc = "returned" /\ decision.action # "wait")
          => (generated = 1 /\ posted = 1)

C12_Witness ==
    /\ pc = "returned" /\ decision.action = "fix_ci"
    /\ SomeNotSuccess /\ generated = 1 /\ posted = 1

\* C13: a review with a CRITICAL finding has the decision CHANGES_REQUESTED
\* whatever the raw answer stated; with every check completed with
\* conclusion "success" the action is then "request_fixes", never "merge".
C13_CriticalForcesChanges ==
    (pc \in {"post", "decide", "returned"} /\ generated = 1
       /\ HasCritical(review.issues))
        => (/\ review.decision = REVIEW_CHANGES_REQUESTED
            /\ (pc = "returned" /\ AllCompleted /\ AllSuccess)
                  => decision.action = "request_fixes")

C13_Witness ==
    /\ pc = "returned" /\ decision.action = "request_fixes"
    /\ Len(ci_status) = 2 /\ AllCompleted /\ AllSuccess
    /\ HasCritical(review.issues)
    /\ review.raw_review.status_approved

\* C14: with every check completed and one conclusion other than "success"
\* the action is "fix_ci" for every review decision; "request_fixes" is
\* returned only when no completed check failed.
C14_CIPriority ==
    pc = "returned" =>
        /\ (AllCompleted /\ SomeNotSuccess) => decision.action = "fix_ci"
        /\ decision.action = "request_fixes"
              => (AllCompleted /\ AllSuccess
                  /\ review.decision = REVIEW_CHANGES_REQUESTED)

C14_Witness ==
    /\ pc = "returned" /\ decision.action = "fix_ci"
    /\ review.decision = REVIEW_CHANGES_REQUESTED
    /\ AllCompleted /\ SomeNotSuccess

Actions == {"wait", "merge", "fix_ci", "request_fixes"}

\* C15: the returned action is one of wait, merge, fix_ci, request_fixes, and
\* it is "merge" exactly when every check is completed with conclusion
\* "success" (an empty list counts) and the review decision is not
\* CHANGES_REQUESTED.
C15_MergeIff ==
    pc = "returned" =>
        /\ decision.action \in Actions
        /\ decision.action = "merge"
              <=> (/\ AllCompleted /\ AllSuccess /\ generated = 1
                   /\ review.decision # REVIEW_CHANGES_REQUESTED)

C15_Witness ==
    /\ pc = "returned" /\ decision.action = "merge"
    /\ ci_status = <<>>
    /\ review.decision = REVIEW_COMMENT

ExpectedFailedChecks ==
    LET idx == { i \in 1..Len(ci_status) :
                   ci_status[i].status = "completed"
                   /\ ci_status[i].conclusion # "success" }
        Pick(k) == CHOOSE i \in idx : Cardinality({ j \in idx : j < i }) = k - 1
    IN  [k \in 1..Cardinality(idx) |->
           [name |-> ci_status[Pick(k)].name,
            conclusion |-> ci_status[Pick(k)].conclusion,
            output |-> ci_status[Pick(k)].output]]

\* C16: in a fix_ci or request_fixes decision failed_checks is the list of
\* the completed checks whose conclusion is not "success", in order
\* (non-empty for fix_ci, empty for request_fixes), and issues carries every
\* finding of the review with its five fields.
C16_EvidenceConsistent ==
    (pc = "returned" /\ decision.action \in {"fix_ci", "request_fixes"}) =>
        /\ decision.failed_checks = ExpectedFailedChecks
        /\ decision.action = "fix_ci" => decision.failed_checks # <<>>
        /\ decision.action = "request_fixes" => decision.failed_checks = <<>>
        /\ Len(decision.issues) = Len(review.issues)
        /\ \A i \in 1..Len(review.issues) :
              /\ decision.issues[i].severity = review.issues[i].severity
              /\ decision.issues[i].description = review.issues[i].description
              /\ decision.issues[i].file = review.issues[i].file
              /\ decision.issues[i].line = review.issues[i].line
              /\ decision.issues[i].suggestion = review.issues[i].suggestion

C16_Witness ==
    /\ pc = "returned" /\ decision.action = "fix_ci"
    /\ Len(decision.failed_checks) = 2
    /\ decision.failed_checks[1].conclusion = "cancelled"
    /\ decision.failed_checks[2].conclusion = "failure"
    /\ Len(decision.issues) = 2
    /\ decision.issues[1].file = "a.py" /\ decision.issues[2].file = ""

---------------------------------------------------------------------------
(* run_agent_loop: one turn of the tool-calling loop                        *)
(* (src/agents/agent_loop.py), with the session's completion signal.        *)

\* largest max_iterations a turn is given
MaxLoopIterations == 2
\* most tool calls one LLM response requests
MaxBatch == 2

\* the tools bound to the LLM (tools_by_name), the finish action among them
ToolNames == {"read_file", "finish"}
\* the names an LLM response may ask for
RequestedNames == ToolNames \cup {"no_such_tool"}

FINISH == "finish"

SystemMessage == [role |-> "system", content |-> "system_prompt"]
HumanMessage == [role |-> "human", content |-> "user_message"]
AIMessage(response) ==
    [role |-> "ai", content |-> response.content,
     tool_calls |-> response.tool_calls]
ToolMessage(content, tool_call_id) ==
    [role |-> "tool", content |-> content, tool_call_id |-> tool_call_id]

INCOMPLETE == "Agent reached maximum iterations without completing the task."

\* what llm_with_tools.invoke can answer at iteration it: a final text, or
\* 1..MaxBatch tool calls, each with its own id
Responses(it) ==
    {[content |-> "final answer", tool_calls |-> <<>>]}
    \cup UNION { { [content |-> "",
                    tool_calls |-> [i \in 1..n |->
                                      [name |-> f[i], id |-> <<it, i>>]]] :
                   f \in [1..n -> RequestedNames] } : n \in 1..MaxBatch }

\* variant: the loop test is <=
loop_continues_inclusive(it, max) == it <= max

\* line 96: while iteration < max_iterations
loop_continues(it, max) == it < max

\* variant: a response without tool calls does not end the turn
after_response_no_return(response) == "tools"

\* lines 113-122: where the loop goes after a response
after_response(response) ==
    IF response.tool_calls = <<>> THEN "respond" ELSE "tools"

\* variant: the exception of a tool is not caught
tool_result_uncaught(name, outcome) ==
    IF name \notin ToolNames
    THEN [content |-> <<"Error: Unknown tool", name>>, invoked |-> FALSE,
          raised |-> FALSE]
    ELSE IF outcome = "raise"
    THEN [content |-> <<"Error executing", name>>, invoked |-> TRUE,
          raised |-> TRUE]
    ELSE [content |-> <<"output of", name>>, invoked |-> TRUE, raised |-> FALSE]

\* lines 134-142: the result of one tool call; outcome is what the tool's
\* invoke does ("ok" or "raise")
tool_result(name, outcome) ==
    IF name \notin ToolNames
    THEN [content |-> <<"Error: Unknown tool", name>>, invoked |-> FALSE,
          raised |-> FALSE]
    ELSE IF outcome = "raise"
    THEN [content |-> <<"Error executing", name>>, invoked |-> TRUE,
          raised |-> FALSE]
    ELSE [content |-> <<"output of", name>>, invoked |-> TRUE, raised |-> FALSE]

\* what a tool's invoke can do: the finish action only records the summary
Outcomes(name) == IF name = FINISH THEN {"ok"} ELSE {"ok", "raise"}

InitLoop ==
    /\ MachineIdle
    /\ ReviewIdle
    /\ CycleIdle
    /\ GatewayIdle
    /\ WebIdle
    /\ messages = <<SystemMessage, HumanMessage>>
    /\ loop_iteration = 0
    /\ loop_max \in 0..MaxLoopIterations
    /\ pending = <<>>
    /\ llm_calls = 0
    /\ dispatched = 0
    /\ loop_result = ""
    /\ llm_failed = FALSE
    /\ finish_signal = ""
    /\ session = NoSession
    /\ pc = "ready"

\* variant: the iteration counter is not advanced
LLMRespondsNoCount ==
    /\ pc = "ready"
    /\ loop_continues(loop_iteration, loop_max)
    /\ llm_calls' = llm_calls + 1
    /\ \E response \in Responses(loop_iteration + 1) :
          /\ messages' = Append(messages, AIMessage(response))
          /\ pc' = after_response(response)
          /\ pending' = IF after_response(response) = "respond"
                        THEN <<>> ELSE response.tool_calls
          /\ loop_result' = IF after_response(response) = "respond"
                            THEN response.content ELSE loop_result
    /\ UNCHANGED <<loop_iteration, loop_max, dispatched, llm_failed,
                   finish_signal, session>>
    /\ UNCHANGED notLoop

\* lines 96-120: one more iteration; the LLM answers, the answer is appended,
\* and a final text is returned at once
LLMResponds ==
    /\ pc = "ready"
    /\ loop_continues(loop_iteration, loop_max)
    /\ loop_iteration' = loop_iteration + 1
    /\ llm_calls' = llm_calls + 1
    /\ \E response \in Responses(loop_iteration + 1) :
          /\ messages' = Append(messages, AIMessage(response))
          /\ pc' = after_response(response)
          /\ pending' = IF after_response(response) = "respond"
                        THEN <<>> ELSE response.tool_calls
          /\ loop_result' = IF after_response(response) = "respond"
                            THEN response.content ELSE loop_result
    /\ UNCHANGED <<loop_max, dispatched, llm_failed, finish_signal, session>>
    /\ UNCHANGED notLoop

\* variant: the failure is logged and the loop goes on
LLMFailsSwallowed ==
    /\ pc = "ready"
    /\ loop_continues(loop_iteration, loop_max)
    /\ loop_iteration' = loop_iteration + 1
    /\ llm_calls' = llm_calls + 1
    /\ llm_failed' = TRUE
    /\ pc' = "ready"
    /\ UNCHANGED <<messages, loop_max, pending, dispatched, loop_result,
                   finish_signal, session>>
    /\ UNCHANGED notLoop

\* lines 104-109: the LLM call raises; the exception is logged and re-raised
LLMFails ==
    /\ pc = "ready"
    /\ loop_continues(loop_iteration, loop_max)
    /\ loop_iteration' = loop_iteration + 1
    /\ llm_calls' = llm_calls + 1
    /\ llm_failed' = TRUE
    /\ pc' = "failed"
    /\ UNCHANGED <<messages, loop_max, pending, dispatched, loop_result,
                   finish_signal, session>>
    /\ UNCHANGED notLoop

\* variant: the batch is worked off from its end
DispatchToolLastFirst ==
    /\ pc = "tools"
    /\ pending # <<>>
    /\ LET call == pending[Len(pending)]
       IN  \E outcome \in Outcomes(call.name) :
             LET r == tool_result(call.name, outcome)
             IN  /\ dispatched' = IF r.invoked THEN dispatched + 1 ELSE dispatched
                 /\ messages' = Append(messages, ToolMessage(r.content, call.id))
                 /\ pending' = SubSeq(pending, 1, Len(pending) - 1)
                 /\ finish_signal' = IF call.name = FINISH /\ r.invoked
                                     THEN "summary" ELSE finish_signal
                 /\ pc' = "tools"
    /\ UNCHANGED <<loop_iteration, loop_max, llm_calls, loop_result,
                   llm_failed, session>>
    /\ UNCHANGED notLoop

\* lines 123-156: the next tool call of the batch is executed and its result
\* appended as a ToolMessage carrying the call's id
DispatchTool ==
    /\ pc = "tools"
    /\ pending # <<>>
    /\ LET call == Head(pending)
       IN  \E outcome \in Outcomes(call.name) :
             LET r == tool_result(call.name, outcome)
             IN  /\ dispatched' = IF r.invoked THEN dispatched + 1 ELSE dispatched
                 /\ IF r.raised
                    THEN /\ pc' = "failed"
                         /\ UNCHANGED <<messages, pending, finish_signal>>
                    ELSE /\ messages' = Append(messages, ToolMessage(r.content, call.id))
                         /\ pending' = Tail(pending)
                         /\ finish_signal' = IF call.name = FINISH /\ r.invoked
                                             THEN "summary" ELSE finish_signal
                         /\ pc' = "tools"
    /\ UNCHANGED <<loop_iteration, loop_max, llm_calls, loop_result,
                   llm_failed, session>>
    /\ UNCHANGED notLoop

\* the for loop of line 123 is through and no completion was signalled: back
\* to the while test
EndBatch ==
    /\ pc = "tools"
    /\ pending = <<>>
    /\ finish_signal = ""
    /\ pc' = "ready"
    /\ UNCHANGED loopVars
    /\ UNCHANGED notLoop

\* variant: the completion signal is not looked at after the batch
FinishIgnored ==
    /\ pc = "tools"
    /\ pending = <<>>
    /\ finish_signal # ""
    /\ pc' = "ready"
    /\ UNCHANGED loopVars
    /\ UNCHANGED notLoop

\* the batch is through and the agent signalled completion: the turn ends in
\* DONE with the summary as the result
Finish ==
    /\ pc = "tools"
    /\ pending = <<>>
    /\ finish_signal # ""
    /\ session' = [finished |-> TRUE, completion_message |-> finish_signal]
    /\ loop_result' = finish_signal
    /\ pc' = "done"
    /\ UNCHANGED <<messages, loop_iteration, loop_max, pending, llm_calls,
                   dispatched, llm_failed, finish_signal>>
    /\ UNCHANGED notLoop

\* lines 96, 158-159: the while test fails; the fixed string is returned
Exhausted ==
    /\ pc = "ready"
    /\ ~loop_continues(loop_iteration, loop_max)
    /\ loop_result' = INCOMPLETE
    /\ pc' = "exhausted"
    /\ UNCHANGED <<messages, loop_iteration, loop_max, pending, llm_calls,
                   dispatched, llm_failed, finish_signal, session>>
    /\ UNCHANGED notLoop

NextLoop ==
    \/ LLMResponds
    \/ LLMFails
    \/ DispatchTool
    \/ EndBatch
    \/ Finish
    \/ Exhausted

SpecLoop == InitLoop /\ [][NextLoop]_vars

\* every LLM call and every tool dispatch returns: a step that can be taken
\* is taken
SpecLoopFair == SpecLoop /\ WF_vars(NextLoop)

---------------------------------------------------------------------------
(* Properties of the tool-calling loop (SpecLoop).                          *)

AIIndexes == {i \in 1..Len(messages) : messages[i].role = "ai"}
ToolIndexes == {i \in 1..Len(messages) : messages[i].role = "tool"}

\* C17: the first LLM response without a tool call ends the loop at once: it
\* is the last message of the conversation, its text is what the loop
\* returns, no tool call is outstanding, and every LLM call of the turn is a
\* response at or before it.
C17_FinalTextStops ==
    \A i \in AIIndexes :
        messages[i].tool_calls = <<>>
        => /\ i = Len(messages)
           /\ pc = "respond"
           /\ loop_result = messages[i].content
           /\ pending = <<>>
           /\ llm_calls = Cardinality(AIIndexes)

\* a final text after one round of tools
C17_Witness ==
    /\ pc = "respond"
    /\ loop_iteration = 2
    /\ dispatched > 0
    /\ messages[Len(messages)].tool_calls = <<>>
    /\ loop_result = "final answer"

\* C18: a tool call never makes the loop raise. Each call of a batch, an
\* unknown tool and a raising tool included, appends one tool message
\* carrying the call's id (for an unknown tool the text of the error, with
\* nothing invoked), the rest of the batch stays to be dispatched, and after
\* the batch the loop is back at its test; only a failed LLM call ends a
\* turn in an exception.
C18_ToolFaultsObserved ==
    [][ /\ (pc = "tools" /\ pending # <<>>)
           => /\ pc' = "tools"
              /\ pending' = Tail(pending)
              /\ Len(messages') = Len(messages) + 1
              /\ messages'[Len(messages')].role = "tool"
              /\ messages'[Len(messages')].tool_call_id = Head(pending).id
              /\ messages'[Len(messages')].content[2] = Head(pending).name
              /\ Head(pending).name \notin ToolNames
                 => /\ messages'[Len(messages')].content[1] = "Error: Unknown tool"
                    /\ dispatched' = dispatched
              /\ llm_calls' = llm_calls
        /\ (pc = "tools" /\ pending = <<>> /\ finish_signal = "")
           => pc' = "ready"
        /\ pc' = "failed" => llm_failed'
      ]_vars

\* an unknown tool and a raising tool in one batch, both observed, and the
\* next LLM response after them
C18_Witness ==
    \E i, j, k \in 1..Len(messages) :
        /\ i < j /\ j < k
        /\ messages[i].role = "tool"
        /\ messages[i].content[1] = "Error: Unknown tool"
        /\ messages[j].role = "tool"
        /\ messages[j].content[1] = "Error executing"
        /\ messages[i].tool_call_id[1] = messages[j].tool_call_id[1]
        /\ messages[k].role = "ai"

\* C19: when the loop stands at its test with max_iterations iterations
\* used, it makes no further LLM call and returns the fixed string; whenever
\* the fixed string is returned, exactly max_iterations LLM calls were made,
\* each answered with tool calls, and the session is not finished.
C19_ExhaustionAfterMax ==
    [][ /\ (pc = "ready" /\ loop_iteration >= loop_max)
           => /\ pc' = "exhausted"
              /\ llm_calls' = llm_calls
        /\ pc' = "exhausted"
           => /\ loop_result' = INCOMPLETE
              /\ llm_calls' = loop_max
              /\ Cardinality({i \in 1..Len(messages') :
                                /\ messages'[i].role = "ai"
                                /\ messages'[i].tool_calls # <<>>}) = loop_max
              /\ finish_signal' = ""
              /\ session'.finished = FALSE
      ]_vars

\* two responses asking for tools, then the fixed string
C19_Witness ==
    /\ pc = "exhausted"
    /\ loop_max = 2
    /\ llm_calls = 2
    /\ Cardinality(ToolIndexes) >= 2
    /\ loop_result = INCOMPLETE
    /\ ~session.finished

\* C20: a failed LLM call ends the turn in the exception: nothing is
\* returned, the session is not finished, and no step (no tool dispatch, no
\* LLM call) follows the failure.
C20_LLMFailureAborts ==
    [][ /\ ~llm_failed
        /\ llm_failed'
           => /\ pc' = "failed"
              /\ loop_result' = ""
              /\ messages' = messages
              /\ dispatched' = dispatched
              /\ session'.finished = FALSE
      ]_vars

\* the second LLM call fails after a round of tools
C20_Witness ==
    /\ llm_failed
    /\ pc = "failed"
    /\ llm_calls = 2
    /\ dispatched > 0
    /\ Cardinality(AIIndexes) = 1

\* the ways one turn ends: final answer, explicit completion, exhaustion,
\* LLM failure
LoopOutcomes == {"respond", "done", "exhausted", "failed"}

FinishIndexes ==
    {i \in 1..Len(messages) :
        /\ messages[i].role = "tool"
        /\ messages[i].content = <<"output of", FINISH>>}

C22_TurnTerminates ==
    /\ <>[](pc \in LoopOutcomes)
    /\ [](llm_calls <= loop_max)
    /\ [][ (pc \in LoopOutcomes) => UNCHANGED pc ]_vars

\* a turn that used both of its two LLM calls and ended by exhaustion
C22_Witness ==
    /\ pc \in LoopOutcomes
    /\ loop_max = 2
    /\ llm_calls = 2
    /\ dispatched >= 2
    /\ pc = "exhausted"

---------------------------------------------------------------------------
(* get_summary, with a caller that also fills in the context               *)
(* (src/core/state_machine.py:194-206, tests/test_state_machine.py:105).   *)

\* the values test_summary gives the context
TestPRNumber == 42
TestBranchName == "feature-branch"

\* variant: the count is taken from the iteration counter
get_summary_counts_iterations(s, h, it, max, pr, br) ==
    [current_state |-> s, iteration |-> it, max_iterations |-> max,
     is_terminal |-> is_terminal(s), is_success |-> is_success(s),
     pr_number |-> pr, branch_name |-> br, transitions_count |-> it]

\* IssueStateMachine.get_summary (issue_number, which nothing changes, is
\* left out)
get_summary(s, h, it, max, pr, br) ==
    [current_state |-> s, iteration |-> it, max_iterations |-> max,
     is_terminal |-> is_terminal(s), is_success |-> is_success(s),
     pr_number |-> pr, branch_name |-> br, transitions_count |-> Len(h)]

InitSummary == Init

\* the caller records the PR and the branch in the context
SetContext ==
    /\ pr_number = 0
    /\ pr_number' = TestPRNumber
    /\ branch_name' = TestBranchName
    /\ op' = [name |-> "set_context", arg |-> "", ok |-> FALSE, val |-> 0]
    /\ UNCHANGED <<state, history, iteration, max_iterations, accepted,
                   returned, pc>>
    /\ UNCHANGED notMachine

GetSummary ==
    /\ op' = [name |-> "get_summary", arg |-> "", ok |-> FALSE,
              val |-> get_summary(state, history, iteration, max_iterations,
                                  pr_number, branch_name)]
    /\ UNCHANGED <<state, history, iteration, max_iterations, pr_number,
                   branch_name, accepted, returned, pc>>
    /\ UNCHANGED notMachine

NextSummary ==
    \/ \E t \in IssueState : TransitionTo(t)
    \/ IncrementIteration
    \/ SetContext
    \/ GetSummary

SpecSummary == InitSummary /\ [][NextSummary]_vars

\* C30: a get_summary call returns the machine as it is (state value,
\* iteration, max_iterations, the two properties, the context's PR number
\* and branch name, the length of the history) and changes nothing.
C30_SummaryReportsMachine ==
    [][ op'.name = "get_summary"
        => /\ op'.val.current_state = state
           /\ op'.val.iteration = iteration
           /\ op'.val.max_iterations = max_iterations
           /\ op'.val.is_terminal = (state \in {COMPLETED, FAILED, MAX_ITERATIONS_REACHED})
           /\ op'.val.is_success = (state = COMPLETED)
           /\ op'.val.pr_number = pr_number
           /\ op'.val.branch_name = branch_name
           /\ op'.val.transitions_count = Len(history)
           /\ UNCHANGED <<state, history, iteration, max_iterations,
                          pr_number, branch_name, accepted, returned>>
      ]_vars

\* the summary of a completed issue with its PR recorded, after an iteration
C30_Witness ==
    /\ op.name = "get_summary"
    /\ op.val.current_state = COMPLETED
    /\ op.val.is_terminal
    /\ op.val.is_success
    /\ op.val.pr_number = TestPRNumber
    /\ op.val.transitions_count = 10
    /\ op.val.iteration = 1

---------------------------------------------------------------------------
(* run_cycle: the controller of one issue (src/cli.py:262-380). The agent   *)
(* it calls (process_issue with a step limit, continue_with_feedback, the   *)
(* session in code_agent.state) and the calls it makes on the issue's state *)
(* machine are those of the design's section 4.4; transition_to, the        *)
(* transition table and increment_iteration are the machine's own.          *)

\* largest --max-iterations a run is given
MaxCycleIterations == 2
\* the PR number a turn can create
CyclePR == 3

UserMessage(content) == [role |-> "human", content |-> content]

\* what one turn appends to the session after the user message: a final
\* answer, or a finish call with its result
TurnTranscripts ==
    { <<AIMessage([content |-> "final answer", tool_calls |-> <<>>])>>,
      <<AIMessage([content |-> "",
                   tool_calls |-> <<[name |-> FINISH, id |-> <<1, 1>>]>>]),
        ToolMessage(<<"output of", FINISH>>, <<1, 1>>)>> }

\* the results a turn can return: success or not, a PR or none
TurnResults ==
    [returned : {TRUE}, success : BOOLEAN, pr_number : {0, CyclePR}]

\* the exceptions a call can leave with: an SDLCAgentError (GitHubAPIError,
\* LLMError, ...) or any other
Raises == {"sdlc", "other"}

\* cli.py:378-380: SDLCAgentError becomes exit code 1, anything else escapes
exit_of(kind) == IF kind = "sdlc" THEN "exit1" ELSE "raised"

\* process_issue: a fresh session with the task
fresh_session(transcript) ==
    <<SystemMessage, UserMessage("task")>> \o transcript

\* variant: every turn starts its history anew, as run_agent_loop does
continue_session_fresh(msgs, feedback, transcript) ==
    <<SystemMessage, UserMessage(feedback)>> \o transcript

\* continue_with_feedback: the feedback is appended to the session and the
\* turn goes on from there
continue_session(msgs, feedback, transcript) ==
    msgs \o <<UserMessage(feedback)>> \o transcript

\* the session's flag after a turn with this transcript
finished_after(transcript, sess) ==
    IF \E i \in 1..Len(transcript) :
          /\ transcript[i].role = "tool"
          /\ transcript[i].content = <<"output of", FINISH>>
    THEN [finished |-> TRUE, completion_message |-> "summary"]
    ELSE sess

\* a sequence of transition_to calls on the machine, each on the state the
\* one before left
RECURSIVE Drive(_, _, _, _, _)
Drive(s, h, it, max, targets) ==
    IF targets = <<>> THEN [state |-> s, history |-> h]
    ELSE LET r == transition_to(s, h, it, max, Head(targets))
         IN  Drive(r.state, r.history, it, max, Tail(targets))

\* section 4.4 step 1: CREATED -> ... -> CREATING_PR
FirstTurnPath ==
    <<ANALYZING, CONTEXT_BUILDING, GENERATING_CODE, COMMITTING, CREATING_PR>>
\* step 2c: on merge
MergePath == <<APPROVED, COMPLETED>>
\* step 2e: the state a fix round asks for
FixTarget(action) == IF action = "fix_ci" THEN CI_FAILED ELSE CHANGES_REQUESTED
\* the retry cycle of section 4.1 back to the CI wait
RetryPath == <<COMMITTING, CREATING_PR, CI_RUNNING>>

InitCycle ==
    /\ ReviewIdle
    /\ LoopIdle
    /\ GatewayIdle
    /\ WebIdle
    /\ cycle_max \in 0..MaxCycleIterations
    /\ state = CREATED
    /\ history = <<>>
    /\ iteration = 0
    /\ max_iterations = cycle_max
    /\ pr_number = 0
    /\ branch_name = ""
    /\ op = [name |-> "__init__", arg |-> "", ok |-> FALSE, val |-> 0]
    /\ accepted = 0
    /\ returned = NoList
    /\ round = 0
    /\ turns = 0
    /\ corrective = 0
    /\ fix_rounds = 0
    /\ decisions = <<>>
    /\ cycle_pr = 0
    /\ cycle_outcome = ""
    /\ result = NoResult
    /\ pc = "start"

\* what no step of run_cycle touches
cycleFrame ==
    <<max_iterations, pr_number, branch_name, op, accepted, returned,
      ci_status, review, decision, generated, posted, loop_iteration,
      loop_max, pending, llm_calls, dispatched, loop_result, llm_failed,
      finish_signal, cycle_max, gatewayVars, webVars>>

\* the machine is asked for the states of path
MachineDrive(path) ==
    LET m == Drive(state, history, iteration, max_iterations, path)
    IN  state' = m.state /\ history' = m.history

\* variant: a first turn without a PR is given up at once
after_first_turn_gives_up(res) ==
    IF ~res.success THEN "stopped"
    ELSE IF res.pr_number = 0 THEN "stopped" ELSE "loop"

\* cli.py:293-309: where run_cycle goes after the first turn
after_first_turn(res) ==
    IF ~res.success THEN "stopped"
    ELSE IF res.pr_number = 0 THEN "corrective" ELSE "loop"

\* cli.py:329: while iteration < max_iterations
cycle_continues(r, max) == r < max

\* cli.py:291-307: the first turn on a fresh session; a result without
\* success ends the run with exit code 1
ProcessIssue ==
    /\ pc = "start"
    /\ turns' = turns + 1
    /\ \E res \in TurnResults, tr \in TurnTranscripts :
          /\ result' = res
          /\ messages' = fresh_session(tr)
          /\ session' = finished_after(tr, session)
          /\ cycle_pr' = IF res.success THEN res.pr_number ELSE 0
          /\ pc' = after_first_turn(res)
          /\ cycle_outcome' = IF after_first_turn(res) = "stopped"
                              THEN "exit1" ELSE ""
          /\ MachineDrive(FirstTurnPath \o
                          (IF after_first_turn(res) = "stopped" THEN <<FAILED>>
                           ELSE IF after_first_turn(res) = "loop" THEN <<CI_RUNNING>>
                           ELSE <<>>))
    /\ UNCHANGED <<iteration, round, corrective, fix_rounds, decisions>>
    /\ UNCHANGED cycleFrame

\* process_issue raises
ProcessIssueRaises ==
    /\ pc = "start"
    /\ turns' = turns + 1
    /\ messages' = fresh_session(<<>>)
    /\ MachineDrive(FirstTurnPath \o <<FAILED>>)
    /\ \E kind \in Raises : cycle_outcome' = exit_of(kind)
    /\ pc' = "stopped"
    /\ UNCHANGED <<iteration, session, round, corrective, fix_rounds,
                   decisions, cycle_pr, result>>
    /\ UNCHANGED cycleFrame

\* cli.py:309-323: no PR after the first turn: one follow-up turn on the
\* session; still no PR ends the run with exit code 1
CorrectiveTurn ==
    /\ pc = "corrective"
    /\ turns' = turns + 1
    /\ corrective' = corrective + 1
    /\ \E pr \in {0, CyclePR}, tr \in TurnTranscripts :
          /\ messages' = continue_session(messages, "create_pr_reminder", tr)
          /\ session' = finished_after(tr, session)
          /\ cycle_pr' = pr
          /\ pc' = IF pr = 0 THEN "stopped" ELSE "loop"
          /\ cycle_outcome' = IF pr = 0 THEN "exit1" ELSE ""
          /\ MachineDrive(IF pr = 0 THEN <<FAILED>> ELSE <<CI_RUNNING>>)
    /\ UNCHANGED <<iteration, round, fix_rounds, decisions, result>>
    /\ UNCHANGED cycleFrame

\* continue_with_feedback raises in the follow-up turn
CorrectiveTurnRaises ==
    /\ pc = "corrective"
    /\ turns' = turns + 1
    /\ corrective' = corrective + 1
    /\ messages' = continue_session(messages, "create_pr_reminder", <<>>)
    /\ MachineDrive(<<FAILED>>)
    /\ \E kind \in Raises : cycle_outcome' = exit_of(kind)
    /\ pc' = "stopped"
    /\ UNCHANGED <<iteration, session, round, fix_rounds, decisions,
                   cycle_pr, result>>
    /\ UNCHANGED cycleFrame

\* cli.py:329-347: a round whose decision is merge: break
RoundMerge ==
    /\ pc = "loop"
    /\ cycle_continues(round, cycle_max)
    /\ round' = round + 1
    /\ decisions' = Append(decisions, "merge")
    /\ MachineDrive(MergePath)
    /\ cycle_outcome' = "returned"
    /\ pc' = "stopped"
    /\ UNCHANGED <<iteration, messages, session, turns, corrective,
                   fix_rounds, cycle_pr, result>>
    /\ UNCHANGED cycleFrame

\* cli.py:329-351: a round whose decision is wait: continue
RoundWait ==
    /\ pc = "loop"
    /\ cycle_continues(round, cycle_max)
    /\ round' = round + 1
    /\ decisions' = Append(decisions, "wait")
    /\ UNCHANGED <<state, history, iteration, messages, session, turns,
                   corrective, fix_rounds, cycle_pr, cycle_outcome, result,
                   pc>>
    /\ UNCHANGED cycleFrame

\* cli.py:329-371: a round whose decision is fix_ci or request_fixes: the
\* feedback is built and the agent continues with it
RoundFix ==
    /\ pc = "loop"
    /\ cycle_continues(round, cycle_max)
    /\ round' = round + 1
    /\ fix_rounds' = fix_rounds + 1
    /\ turns' = turns + 1
    /\ iteration' = increment_iteration(iteration).iteration
    /\ \E action \in {"fix_ci", "request_fixes"}, tr \in TurnTranscripts :
          LET r == transition_to(state, history, iteration, max_iterations,
                                 FixTarget(action))
              m == Drive(r.state, r.history, iteration', max_iterations,
                         <<GENERATING_CODE>> \o RetryPath)
          IN  /\ decisions' = Append(decisions, action)
              /\ state' = m.state
              /\ history' = m.history
              /\ messages' = continue_session(messages, <<"feedback", action>>, tr)
              /\ session' = finished_after(tr, session)
    /\ UNCHANGED <<corrective, cycle_pr, cycle_outcome, result, pc>>
    /\ UNCHANGED cycleFrame

\* check_and_decide raises
RoundRaises ==
    /\ pc = "loop"
    /\ cycle_continues(round, cycle_max)
    /\ round' = round + 1
    /\ MachineDrive(<<FAILED>>)
    /\ \E kind \in Raises : cycle_outcome' = exit_of(kind)
    /\ pc' = "stopped"
    /\ UNCHANGED <<iteration, messages, session, turns, corrective,
                   fix_rounds, decisions, cycle_pr, result>>
    /\ UNCHANGED cycleFrame

\* cli.py:329, 372-376: the while test fails: the else branch reports that
\* the maximum was reached and run_cycle returns
CycleExhausted ==
    /\ pc = "loop"
    /\ ~cycle_continues(round, cycle_max)
    /\ MachineDrive(<<MAX_ITERATIONS_REACHED>>)
    /\ cycle_outcome' = "returned"
    /\ pc' = "stopped"
    /\ UNCHANGED <<iteration, messages, session, round, turns, corrective,
                   fix_rounds, decisions, cycle_pr, result>>
    /\ UNCHANGED cycleFrame

NextCycle ==
    \/ ProcessIssue
    \/ ProcessIssueRaises
    \/ CorrectiveTurn
    \/ CorrectiveTurnRaises
    \/ RoundMerge
    \/ RoundWait
    \/ RoundFix
    \/ RoundRaises
    \/ CycleExhausted

SpecCycle == InitCycle /\ [][NextCycle]_vars

---------------------------------------------------------------------------
(* Properties of the controller (SpecCycle).                                *)

FixActions == {"fix_ci", "request_fixes"}

Entries(h, s) == Cardinality({i \in 1..Len(h) : h[i].to_state = s})

\* the while loop ran out of rounds (the else branch of cli.py:372)
LoopExhausted ==
    /\ pc = "stopped"
    /\ cycle_pr # 0
    /\ Len(decisions) = cycle_max
    /\ \A i \in 1..Len(decisions) : decisions[i] # "merge"

C24_MergeCompletes ==
    LET n == Len(decisions)
    IN  (/\ n >= 1
         /\ decisions[n] = "merge"
         /\ \A i \in 1..(n - 1) : decisions[i] \in FixActions)
        => /\ state = COMPLETED
           /\ Len(history) >= 2
           /\ history[Len(history) - 1].to_state = APPROVED
           /\ history[Len(history)].to_state = COMPLETED
           /\ iteration = n - 1
           /\ Entries(history, GENERATING_CODE) = n
           /\ pc = "stopped"

\* C25: a wait round leaves the machine in CI_RUNNING with its iteration
\* counter as it was, and waits do not use up the budget: when the loop runs
\* out of rounds, max_iterations fix turns were run.
C25_WaitKeepsBudget ==
    [][ /\ (Len(decisions') > Len(decisions)
            /\ decisions'[Len(decisions')] = "wait")
           => /\ state' = CI_RUNNING
              /\ iteration' = iteration
        /\ (pc = "loop" /\ LoopExhausted')
           => fix_rounds' = cycle_max
      ]_vars

\* C26: a fix round moves the machine from the state it starts in to
\* CI_FAILED or CHANGES_REQUESTED, adds one to the iteration counter and
\* runs one turn; the counter is the number of fix rounds.
C26_FixRoundCounted ==
    [][ /\ fix_rounds' > fix_rounds
           => /\ Len(history') > Len(history)
              /\ history'[Len(history) + 1].from_state = state
              /\ history'[Len(history) + 1].to_state \in RetryStates
              /\ iteration' = iteration + 1
              /\ turns' = turns + 1
        /\ iteration' = fix_rounds'
      ]_vars

\* C27: when the loop has run max_iterations (at least one) rounds without
\* a merge decision, the run returns with the machine in
\* MAX_ITERATIONS_REACHED.
C27_ExhaustionIsMaxIterations ==
    (LoopExhausted /\ cycle_max >= 1)
    => /\ state = MAX_ITERATIONS_REACHED
       /\ cycle_outcome = "returned"

C29_StopsTerminal ==
    pc = "stopped"
    => /\ state \in {COMPLETED, FAILED, MAX_ITERATIONS_REACHED}
       /\ LoopExhausted => cycle_outcome = "returned"

---------------------------------------------------------------------------
(* The retry cycle and the terminal states of the machine (Spec).           *)

RetryCycle == <<GENERATING_CODE, COMMITTING, CREATING_PR, CI_RUNNING>>

\* C31: from CI_FAILED and from CHANGES_REQUESTED a transition_to
\* (GENERATING_CODE) with iteration < max_iterations returns True and enters
\* GENERATING_CODE, and from there the requests for COMMITTING, CREATING_PR
\* and CI_RUNNING are accepted one after the other.
C31_RetryCycle ==
    [][ /\ (/\ op'.name = "transition_to" /\ op'.arg = GENERATING_CODE
             /\ state \in RetryStates
             /\ iteration < max_iterations)
            => /\ op'.ok
               /\ state' = GENERATING_CODE
               /\ history' = Append(history, StateTransition(state, GENERATING_CODE))
        /\ \A k \in 1..(Len(RetryCycle) - 1) :
              (/\ op'.name = "transition_to" /\ op'.arg = RetryCycle[k + 1]
               /\ state = RetryCycle[k])
              => /\ op'.ok
                 /\ state' = RetryCycle[k + 1]
      ]_vars

\* one full turn of the cycle: CI_RUNNING, a retry state, and CI_RUNNING again
C31_Witness ==
    /\ state = CI_RUNNING
    /\ iteration = 1 /\ max_iterations = 2
    /\ Len(history) >= 5
    /\ history[Len(history) - 4].to_state \in RetryStates
    /\ SubSeq(ToStates(history), Len(history) - 3, Len(history)) = RetryCycle

\* C32: is_terminal is True exactly when the table gives the current state
\* no destination, so from every non-terminal state some request is
\* accepted; is_success implies is_terminal.
C32_TerminalMeansNoExit ==
    /\ is_terminal(state) <=> VALID_TRANSITIONS(state) = {}
    /\ ~is_terminal(state)
       => \E t \in IssueState :
             transition_to(state, history, iteration, max_iterations, t).ok
    /\ is_success(state) => is_terminal(state)

\* the machine was stopped by the iteration limit
C32_Witness ==
    /\ state = MAX_ITERATIONS_REACHED
    /\ is_terminal(state)
    /\ op.name = "transition_to" /\ op.arg = GENERATING_CODE /\ op.ok

---------------------------------------------------------------------------
(* The successful run of process_issue (SpecAgent).                         *)

ProcessPath == SubSeq(HappyPath, 1, 6)

\* C33: when process_issue returns, each of its six requests was accepted:
\* the history is the chain from CREATED to CI_RUNNING and the reported state
\* is CI_RUNNING; at every point of the run pr_number is set only with
\* branch_name set and CREATING_PR entered.
C33_SuccessMeansAllAccepted ==
    /\ pc = "returned"
       => /\ ToStates(history) = ProcessPath
          /\ history[1].from_state = CREATED
          /\ \A i \in 2..Len(history) :
                 history[i].from_state = history[i - 1].to_state
          /\ accepted = Len(ProcessPath)
          /\ state = CI_RUNNING
          /\ op.name = "process_issue" /\ op.ok /\ op.arg = CI_RUNNING
          /\ op.val = pr_number
    /\ pr_number # 0
       => /\ branch_name # ""
          /\ \E i \in 1..Len(history) : history[i].to_state = CREATING_PR
    /\ branch_name # ""
       => \E i \in 1..Len(history) : history[i].to_state = COMMITTING

\* a run that returned with PR 2
C33_Witness ==
    /\ pc = "returned"
    /\ pr_number = 2
    /\ branch_name # ""
    /\ Len(history) = 6

---------------------------------------------------------------------------
(* The merge decision and the review behind it (SpecReview).                *)

\* C34: check_and_decide returns "merge", with the reason "CI passed and
\* review approved", only when the decision of the review it generated is
\* APPROVED; a review whose decision is COMMENT never yields "merge".
C34_MergeNeedsApproval ==
    (pc = "returned" /\ decision.action = "merge")
    => /\ decision.reason = "CI passed and review approved"
       /\ review.decision = REVIEW_APPROVED

---------------------------------------------------------------------------
(* The tool-call protocol in the message history (SpecLoop).                *)

\* the tool results that must follow the response at index i by now: all of
\* its calls, or those already worked off while its batch is running
Answered(i) ==
    IF pc = "tools" /\ \A j \in AIIndexes : j <= i
    THEN Len(messages[i].tool_calls) - Len(pending)
    ELSE Len(messages[i].tool_calls)

\* C35: the history only grows, by one message per step; each response that
\* asks for n tool calls is followed by n tool results, in the order asked
\* and each with the id of its call, before the next response; an LLM call is
\* made only with no call of the batch left, and no step runs two tools.
C35_ToolCallProtocol ==
    /\ [](\A i \in AIIndexes :
            /\ Answered(i) >= 0
            /\ i + Answered(i) <= Len(messages)
            /\ \A k \in 1..Answered(i) :
                  /\ messages[i + k].role = "tool"
                  /\ messages[i + k].tool_call_id = messages[i].tool_calls[k].id
            /\ i + Answered(i) < Len(messages)
               => messages[i + Answered(i) + 1].role = "ai")
    /\ [][ /\ IsPrefix(messages, messages')
           /\ Len(messages') <= Len(messages) + 1
           /\ dispatched' <= dispatched + 1
           /\ llm_calls' > llm_calls => pending = <<>>
           /\ dispatched' > dispatched
              => /\ llm_calls' = llm_calls
                 /\ Len(messages') = Len(messages) + 1
                 /\ messages'[Len(messages')].role = "tool" ]_vars

\* a batch of two calls answered in order, and the next response after it
C35_Witness ==
    /\ Len(messages) = 6
    /\ messages[3].role = "ai" /\ Len(messages[3].tool_calls) = 2
    /\ messages[4].role = "tool" /\ messages[4].tool_call_id = <<1, 1>>
    /\ messages[5].role = "tool" /\ messages[5].tool_call_id = <<1, 2>>
    /\ messages[6].role = "ai"

---------------------------------------------------------------------------
(* Long runs of the machine: a caller that only requests transitions and    *)
(* increments the counter, followed through several retry cycles.           *)

\* longest history followed in the long runs
MaxLongHistory == 26

\* one transition_to call, as MachineCall, in a long run
LongCall(new_state) ==
    LET r == transition_to(state, history, iteration, max_iterations, new_state)
    IN  /\ Len(r.history) <= MaxLongHistory
        /\ state' = r.state
        /\ history' = r.history
        /\ op' = [name |-> "transition_to", arg |-> new_state, ok |-> r.ok, val |-> 0]
        /\ accepted' = IF r.ok THEN accepted + 1 ELSE accepted
        /\ UNCHANGED <<iteration, max_iterations, pr_number, branch_name,
                       returned, pc>>
        /\ UNCHANGED notMachine

NextLong ==
    \/ \E t \in IssueState : LongCall(t)
    \/ IncrementIteration

SpecLong == Init /\ [][NextLong]_vars

LastEntry(h, s) ==
    LET at == {i \in 1..Len(h) : h[i].to_state = s}
    IN  IF at = {} THEN 0 ELSE CHOOSE i \in at : \A j \in at : j <= i

\* C36: a history that ends in COMPLETED has, after its last entry into
\* CI_RUNNING, exactly CI_PASSED, REVIEWING and APPROVED in this order
\* (and possibly MERGING) before COMPLETED.
C36_CompletedAfterPassAndApproval ==
    (history # <<>> /\ history[Len(history)].to_state = COMPLETED)
    => LET r == LastEntry(history, CI_RUNNING)
           after == SubSeq(ToStates(history), r + 1, Len(history))
       IN  /\ r > 0
           /\ after \in {<<CI_PASSED, REVIEWING, APPROVED, COMPLETED>>,
                          <<CI_PASSED, REVIEWING, APPROVED, MERGING, COMPLETED>>}

\* completed in the second CI run, after a failed first one
C36_Witness ==
    /\ state = COMPLETED
    /\ Entries(history, CI_RUNNING) = 2
    /\ Entries(history, CI_FAILED) = 1
    /\ Entries(history, CI_PASSED) = 1
    /\ LastEntry(history, CI_FAILED) < LastEntry(history, CI_RUNNING)

---------------------------------------------------------------------------
(* A caller that follows the retry protocol: increment_iteration is called  *)
(* once in each stay in CI_FAILED or CHANGES_REQUESTED, before the request  *)
(* to re-enter GENERATING_CODE, and nowhere else.                           *)

RetryEntries(h) == Entries(h, CI_FAILED) + Entries(h, CHANGES_REQUESTED)

InitDisciplined ==
    /\ Init
    /\ max_iterations >= 1

\* transition_to; the re-entry request comes after this stay's increment
DisciplinedCall(new_state) ==
    /\ (state \in RetryStates /\ new_state = GENERATING_CODE)
       => iteration = RetryEntries(history)
    /\ LongCall(new_state)

\* increment_iteration, once per stay in a retry state
DisciplinedIncrement ==
    /\ state \in RetryStates
    /\ iteration < RetryEntries(history)
    /\ IncrementIteration

NextDisciplined ==
    \/ \E t \in IssueState : DisciplinedCall(t)
    \/ DisciplinedIncrement

\* a transition_to call that returns True
AcceptedCall == (\E t \in IssueState : DisciplinedCall(t)) /\ accepted' > accepted

SpecDisciplined == InitDisciplined /\ [][NextDisciplined]_vars

\* the caller keeps driving the machine while some request can be accepted
SpecDisciplinedFair == SpecDisciplined /\ WF_vars(AcceptedCall)

\* C37: under the retry protocol, with max_iterations >= 1, the history has
\* at most max_iterations entries into GENERATING_CODE, the number of
\* accepted transitions is bounded (7 per cycle and 4 around them), and the
\* machine reaches a terminal state.
C37_RetriesBounded ==
    /\ [](Entries(history, GENERATING_CODE) <= max_iterations)
    /\ [](accepted <= 7 * max_iterations + 4)
    /\ <>is_terminal(state)

\* stopped by the limit after max_iterations = 2 entries
C37_Witness ==
    /\ state = MAX_ITERATIONS_REACHED
    /\ max_iterations = 2 /\ iteration = 2
    /\ Entries(history, GENERATING_CODE) = 2
    /\ RetryEntries(history) = 2

---------------------------------------------------------------------------
(* LLMGateway.generate and generate_with_context on a provider whose        *)
(* methods carry tenacity's retry decorator (src/llm/gateway.py).           *)

\* stop_after_attempt(3)
StopAfterAttempt == 3

Providers == {"openai", "yandex"}

GatewayMethods == {"generate", "generate_with_context"}

\* how a request to the provider API can fail
RequestErrors == {"http_status", "timeout", "connection"}

\* tenacity's stop_after_attempt: no further attempt once attempt_number
\* has reached the maximum; with reraise=True the last exception is raised
retry_stops(attempt) == attempt >= StopAfterAttempt

InitGateway ==
    /\ MachineIdle
    /\ ReviewIdle
    /\ LoopIdle
    /\ CycleIdle
    /\ WebIdle
    /\ provider \in Providers
    /\ entry = ""
    /\ outer_attempt = 0
    /\ inner_attempt = 0
    /\ provider_requests = 0
    /\ last_error = ""
    /\ pc = "gateway"

\* LLMGateway.generate hands over to provider.generate, whose first attempt
\* builds the messages and calls self.generate_with_context;
\* LLMGateway.generate_with_context calls the provider's method directly
GatewayCall(method) ==
    /\ pc = "gateway"
    /\ entry' = method
    /\ outer_attempt' = IF method = "generate" THEN 1 ELSE 0
    /\ inner_attempt' = 1
    /\ pc' = "request"
    /\ UNCHANGED <<provider, provider_requests, last_error>>
    /\ UNCHANGED notGateway

\* the request is answered and the LLMResponse goes back to the caller
RequestSucceeds ==
    /\ pc = "request"
    /\ provider_requests' = provider_requests + 1
    /\ pc' = "returned"
    /\ UNCHANGED <<provider, entry, outer_attempt, inner_attempt, last_error>>
    /\ UNCHANGED notGateway

\* the request fails: generate_with_context raises LLMError, its retry
\* repeats it or gives up; when it gives up, the retry around generate (if
\* generate was the method called) repeats generate or gives up
RequestFails(error) ==
    /\ pc = "request"
    /\ provider_requests' = provider_requests + 1
    /\ last_error' = error
    /\ IF ~retry_stops(inner_attempt)
       THEN /\ inner_attempt' = inner_attempt + 1
            /\ UNCHANGED <<outer_attempt, pc>>
       ELSE IF entry = "generate" /\ ~retry_stops(outer_attempt)
       THEN /\ outer_attempt' = outer_attempt + 1
            /\ inner_attempt' = 1
            /\ UNCHANGED pc
       ELSE /\ pc' = "raised"
            /\ UNCHANGED <<outer_attempt, inner_attempt>>
    /\ UNCHANGED <<provider, entry>>
    /\ UNCHANGED notGateway

NextGateway ==
    \/ \E method \in GatewayMethods : GatewayCall(method)
    \/ RequestSucceeds
    \/ \E error \in RequestErrors : RequestFails(error)

SpecGateway == InitGateway /\ [][NextGateway]_vars

\* C38: when every request of one LLMGateway.generate call fails, the
\* LLMError reaches the caller after at most stop_after_attempt = 3 requests
\* to the provider API.
C38_AtMostThreeRequests ==
    (entry = "generate" /\ pc = "raised")
    => provider_requests <= StopAfterAttempt

---------------------------------------------------------------------------
(* The web front end (src/web/app.py): POST /api/process creates a Job and  *)
(* schedules run_agent_job, a coroutine on the server's event loop; two     *)
(* jobs interleave at its await points.                                     *)

JobIds == {1, 2}

\* the requests: each job has its own repository and token
RequestRepo(j) == IF j = 1 THEN "owner/a" ELSE "owner/b"
RequestToken(j) == IF j = 1 THEN "token-a" ELSE "token-b"

PENDING == "pending"
RUNNING == "running"
SUCCESS == "success"
JOB_FAILED == "failed"

\* Job (status PENDING by default), with the position of its run_agent_job
\* and the repository and token its agent's GitHubClient was given
Job(j) ==
    [repo |-> RequestRepo(j), status |-> PENDING, error |-> "",
     at |-> "queued", used_repo |-> "", used_token |-> ""]

\* get_settings under lru_cache: Settings() is built from the environment on
\* the first call, and that object is returned ever after
get_settings(cache, env) ==
    IF cache.cached THEN cache
    ELSE [cached |-> TRUE, github_token |-> env.GITHUB_TOKEN,
          github_repository |-> env.GITHUB_REPOSITORY]

\* what agent.process_issue does in a job
JobOutcomes == {"success", "failure", "raise"}

\* job.error: None ("") on success, the result's summary (or "Unknown
\* error") when the result reports failure, str(e) after an exception
job_error(outcome) ==
    CASE outcome = "success" -> ""
      [] outcome = "failure" -> "Unknown error"
      [] OTHER -> "exception"

InitWeb ==
    /\ MachineIdle
    /\ ReviewIdle
    /\ LoopIdle
    /\ CycleIdle
    /\ GatewayIdle
    /\ jobs = <<>>
    /\ environ = NoEnviron
    /\ settings_cache = NoSettings
    /\ pc = "serving"

\* lines 336-360: the job is created and its run scheduled
Submit(j) ==
    /\ j \notin DOMAIN jobs
    /\ jobs' = [i \in DOMAIN jobs \cup {j} |-> IF i = j THEN Job(j) ELSE jobs[i]]
    /\ UNCHANGED <<environ, settings_cache, pc>>
    /\ UNCHANGED notWeb

\* lines 384-402: RUNNING, the environment variables are set, and the
\* coroutine awaits the start of git clone
JobStart(j) ==
    /\ j \in DOMAIN jobs
    /\ jobs[j].at = "queued"
    /\ jobs' = [jobs EXCEPT ![j].status = RUNNING, ![j].at = "spawning"]
    /\ environ' = [GITHUB_TOKEN |-> RequestToken(j),
                   GITHUB_REPOSITORY |-> jobs[j].repo]
    /\ UNCHANGED <<settings_cache, pc>>
    /\ UNCHANGED notWeb

\* line 407: the subprocess runs, the coroutine awaits its end
JobCloning(j) ==
    /\ j \in DOMAIN jobs
    /\ jobs[j].at = "spawning"
    /\ jobs' = [jobs EXCEPT ![j].at = "cloning"]
    /\ UNCHANGED <<environ, settings_cache, pc>>
    /\ UNCHANGED notWeb

\* lines 409-410, 448-451: git clone failed; the handler marks the job FAILED
JobCloneFails(j) ==
    /\ j \in DOMAIN jobs
    /\ jobs[j].at = "cloning"
    /\ jobs' = [jobs EXCEPT ![j].status = JOB_FAILED,
                            ![j].error = "Failed to clone",
                            ![j].at = "done"]
    /\ UNCHANGED <<environ, settings_cache, pc>>
    /\ UNCHANGED notWeb

\* lines 412-451, without an await: the settings are taken from
\* get_settings, the client and the agent are built from them, the issue is
\* processed and the job's status set from the result or the exception
JobRun(j) ==
    /\ j \in DOMAIN jobs
    /\ jobs[j].at = "cloning"
    /\ LET settings == get_settings(settings_cache, environ)
       IN  /\ settings_cache' = settings
           /\ \E outcome \in JobOutcomes :
                 jobs' = [jobs EXCEPT
                            ![j].used_repo = settings.github_repository,
                            ![j].used_token = settings.github_token,
                            ![j].status = IF outcome = "success"
                                          THEN SUCCESS ELSE JOB_FAILED,
                            ![j].error = job_error(outcome),
                            ![j].at = "done"]
    /\ UNCHANGED <<environ, pc>>
    /\ UNCHANGED notWeb

NextWeb ==
    \/ \E j \in JobIds : Submit(j)
    \/ \E j \in JobIds : JobStart(j)
    \/ \E j \in JobIds : JobCloning(j)
    \/ \E j \in JobIds : JobCloneFails(j)
    \/ \E j \in JobIds : JobRun(j)

SpecWeb == InitWeb /\ [][NextWeb]_vars

JobStatusSteps ==
    {<<PENDING, RUNNING>>, <<RUNNING, SUCCESS>>, <<RUNNING, JOB_FAILED>>}

\* C39: a job that processed its issue did so on the repository and with
\* the token of its own request, whatever the other job did meanwhile; and a
\* job's status only moves PENDING -> RUNNING -> SUCCESS or FAILED.
C39_JobsIsolated ==
    /\ [](\A j \in DOMAIN jobs :
            jobs[j].used_repo # ""
            => /\ jobs[j].used_repo = RequestRepo(j)
               /\ jobs[j].used_token = RequestToken(j))
    /\ [][ \A j \in DOMAIN jobs :
             \/ jobs'[j].status = jobs[j].status
             \/ <<jobs[j].status, jobs'[j].status>> \in JobStatusSteps ]_vars

====
